---- MODULE Spec2Model ----
(***************************************************************************)
(* Model of the asynchronous file writer of src/uv_file.c (struct uvFile,  *)
(* its create / write / close requests, the libuv loop thread, the libuv   *)
(* worker pool and the kernel AIO context), of the membership-change       *)
(* scenarios exercised by the membership tests, and of raft_leader.        *)
(*                                                                         *)
(* Threads.  Every API function and every "after work" / poll / close      *)
(* callback runs on the loop thread: these are the actions guarded by      *)
(* LoopIdle.  createWorkCb and writeWorkCb run on worker threads and the   *)
(* kernel completes AIO requests on its own: their steps interleave freely *)
(* with the loop thread.                                                   *)
(*                                                                         *)
(* assert(): a failing assertion aborts the process.  The model records    *)
(* the first failing assertion in `aborted` and stops.  Assertions at the  *)
(* head of API functions are preconditions on the caller and appear as     *)
(* guards.                                                                 *)
(***************************************************************************)
EXTENDS Integers, Sequences, FiniteSets, TLC

(* ------------------------------------------------------------------ *)
(* Bounds of the model                                                 *)
(* ------------------------------------------------------------------ *)

\* Number of write requests a run submits.
MaxWrites == 2

\* Largest max_n_writes passed to uvFileCreate.
MaxNWrites == 2

\* Election timeout, in ticks of the leader's clock.
ElectionTimeout == 2

\* Catch-up rounds a promotion may take.
MaxRounds == 2

\* Largest server id of the raft instances raft_leader is applied to.
MaxId == 3

(* ------------------------------------------------------------------ *)
(* Program constants                                                   *)
(* ------------------------------------------------------------------ *)

\* Cluster sizes the membership tests run with: cluster_n[] = {"3","4","5"}.
MinClusterN == 3
MaxClusterN == 5

\* enum { CREATING = 1, READY, ERRORED, CLOSED }; 0 is "no state" (set by
\* the failure path of uvFileCreate).
NOSTATE == 0
CREATING == 1
READY == 2
ERRORED == 3
CLOSED == 4

\* uvFileInit does not assign f->state: right after initialisation the
\* field holds whatever the caller's memory held.  Any other value behaves
\* like NOSTATE, which matches none of the four codes.
StateGarbage == {NOSTATE, CREATING, READY, ERRORED, CLOSED}

\* Builds.  RWF_DSYNC and RWF_NOWAIT come from the kernel headers, which
\* have had RWF_DSYNC since Linux 4.7 and RWF_NOWAIT since 4.14: a build
\* with RWF_NOWAIT has RWF_DSYNC, and a build without RWF_NOWAIT requires
\* async to be off (assert(f->async == false) in uvFileWrite).  So async
\* implies RWF_DSYNC, and a build without RWF_NOWAIT behaves as one with
\* it does when async is off.

\* Values a request callback pointer can take.
Callbacks == {"NULL", "cb"}

\* Results a kernel AIO write event can carry (event->res): the number of
\* bytes written, -EAGAIN (would block under RWF_NOWAIT), a real I/O error.
KaioResults == {"OK", "EAGAIN", "EIO"}

\* Results of a blocking write: would-block cannot happen without NOWAIT.
BlockingResults == {"OK", "EIO"}

WriteIds == 1..MaxWrites

VARIABLES
    \* ---- struct uvFile ----
    state,        \* f->state
    closing,      \* f->closing
    close_cb,     \* f->close_cb
    fd,           \* f->fd: "-1" or "valid" (holds a descriptor number)
    ctx,          \* f->ctx: "0" or "set"
    events,       \* f->events: "NULL", "alloc", "freed"
    n_events,     \* f->n_events
    async,        \* f->async
    direct,       \* f->direct
    write_queue,  \* f->write_queue, oldest first
    poller,       \* f->event_poller: "init", "started", "closing", "closed"
    \* ---- build and open flags ----
    rwf_dsync,    \* the build has RWF_DSYNC (#if defined(RWF_DSYNC))
    oflags,       \* flags f->fd was opened with
    \* ---- operating system ----
    os,           \* per resource: "none", "open", "released"
    over,         \* resources released again after their release
    disk,         \* the file at req->path: "absent", "exists", "unlinked"
    efd,          \* counter of the event file descriptor
    ring,         \* completion ring of f->ctx, oldest first
    \* ---- requests ----
    creq,         \* the uvFileCreate request
    wr,           \* the uvFileWrite requests, by submission number
    nsub,         \* number of uvFileWrite calls made
    \* ---- control ----
    pollpc,       \* "idle", or "getevents": loop thread inside writePollCb
    aborted,      \* "none" or the assertion that failed
    \* ---- observations ----
    cbOrder,      \* write callbacks in invocation order
    closeCbs      \* number of invocations of the close callback

fileVars == <<state, closing, close_cb, fd, ctx, events, n_events, async,
              direct, write_queue, poller, rwf_dsync, oflags, os, over,
              disk, efd, ring, creq,
              wr, nsub, pollpc, aborted, cbOrder, closeCbs>>

VARIABLES
    \* ---- cluster of the membership tests ----
    cluster_n,      \* number of servers the cluster was bootstrapped with
    leader,         \* id of the elected leader (0: no cluster)
    log,            \* per server, its log: configuration entries
    configuration,  \* per server, the configuration in force
    commit_index,   \* per server
    last_applied,   \* per server
    match_index,    \* leader's match_index per server
    promotee_id,    \* leader: server being caught up for promotion, or 0
    round_number,   \* leader: current catch-up round, or 0
    round_index,    \* leader: log index the current round has to reach
    round_ticks,    \* leader: ticks since the current round started
    added,          \* id passed to the add-server request, or 0
    promoted,       \* id passed to the promote request, or 0
    removed         \* id passed to the remove-server request, or 0

raftVars == <<cluster_n, leader, log, configuration, commit_index,
              last_applied, match_index, promotee_id, round_number,
              round_index, round_ticks, added, promoted, removed>>

VARIABLES
    \* ---- struct raft as raft_leader reads it ----
    r_state,         \* r->state
    r_id,            \* r->id
    r_address,       \* r->address
    current_leader,  \* r->follower_state.current_leader: id and address
    hint             \* *id and *address of the last raft_leader call

hintVars == <<r_state, r_id, r_address, current_leader, hint>>

vars == <<fileVars, raftVars, hintVars>>

(* ------------------------------------------------------------------ *)
(* Helpers                                                             *)
(* ------------------------------------------------------------------ *)

Range(s) == {s[k] : k \in 1..Len(s)}

Remove(s, x) == SelectSeq(s, LAMBDA y : y # x)

Min(a, b) == IF a < b THEN a ELSE b

\* The loop thread is free to run a callback or an API call.
LoopIdle == aborted = "none" /\ pollpc = "idle"

Running == aborted = "none"

\* flags: the flags of req->iocb (aio_flags and aio_rw_flags); wouldblock:
\* the non-blocking attempt failed with EAGAIN; wres: what writeWorkCb
\* stored in req->status, "none" while it has not returned.
FreshWrite == [phase |-> "free", res |-> "none", status |-> "none",
               cbs |-> 0, cbStatus |-> "none", cbClosing |-> FALSE,
               flags |-> {}, wouldblock |-> FALSE, wres |-> "none"]

FreshCreate == [phase |-> "none", status |-> "none", cb |-> "NULL",
                steps |-> <<>>, cbs |-> 0, cbStatus |-> "none"]

\* close(2) / io_destroy(2) of resource r as the OS sees it.
Release(o, r) == [o EXCEPT ![r] = "released"]

(* ------------------------------------------------------------------ *)
(* uvFileInit                                                          *)
(* ------------------------------------------------------------------ *)

uvFileInit ==
    /\ state \in StateGarbage
    /\ closing = FALSE
    /\ close_cb = "NULL"
    /\ fd = "-1"
    /\ ctx = "0"
    /\ events = "NULL"
    /\ n_events = 0
    /\ async \in BOOLEAN
    /\ direct \in BOOLEAN
    /\ write_queue = <<>>
    /\ poller = "init"
    /\ rwf_dsync \in BOOLEAN
    /\ async => rwf_dsync
    /\ oflags = {}
    /\ os = [fd |-> "none", event_fd |-> "open", ctx |-> "none"]
    /\ over = {}
    /\ disk = "absent"
    /\ efd = 0
    /\ ring = <<>>
    /\ creq = FreshCreate
    /\ wr = [i \in WriteIds |-> FreshWrite]
    /\ nsub = 0
    /\ pollpc = "idle"
    /\ aborted = "none"
    /\ cbOrder = <<>>
    /\ closeCbs = 0

(* ------------------------------------------------------------------ *)
(* maybeClosed                                                         *)
(* ------------------------------------------------------------------ *)

\* maybeClosed without the wait for an in-flight create request.
maybeClosedNoCreateWait(st, cl, wq, pl) ==
    IF ~cl THEN pl
    ELSE IF wq # <<>> THEN pl
    ELSE IF pl \in {"closing", "closed"} THEN pl
    ELSE "closing"

\* The value of the poller handle after maybeClosed(f), given the values
\* the fields have when it is called.
maybeClosed(st, cl, wq, pl) ==
    IF ~cl THEN pl
    ELSE IF st = CREATING THEN pl
    ELSE IF wq # <<>> THEN pl
    ELSE IF pl \in {"closing", "closed"} THEN pl
    ELSE "closing"

(* ------------------------------------------------------------------ *)
(* uvFileCreate                                                        *)
(* ------------------------------------------------------------------ *)

CreateOutcomes == {"ok", "open", "io_setup", "calloc", "queue_work"}

\* The open flags without the O_DSYNC of builds that lack RWF_DSYNC.
OpenFlagsNoDsync == {"O_WRONLY", "O_CREAT", "O_EXCL"}

\* The flags uvFileCreate passes to open().
OpenFlags ==
    {"O_WRONLY", "O_CREAT", "O_EXCL"}
        \cup (IF rwf_dsync THEN {} ELSE {"O_DSYNC"})

uvFileCreate(max_n_writes, cb, outcome) ==
    /\ LoopIdle
    /\ ~closing
    /\ creq.phase = "none"
    /\ n_events' = max_n_writes
    /\ oflags' = IF outcome = "ok" THEN OpenFlags ELSE {}
    /\ IF outcome = "ok"
       THEN /\ state' = CREATING
            /\ fd' = "valid"
            /\ ctx' = "set"
            /\ events' = "alloc"
            /\ os' = [os EXCEPT !.fd = "open", !.ctx = "open"]
            /\ disk' = "exists"
            /\ creq' = [FreshCreate EXCEPT !.phase = "queued", !.status = "0",
                                           !.cb = cb]
       ELSE /\ state' = NOSTATE
            /\ fd' = "-1"
            /\ creq' = [FreshCreate EXCEPT !.phase = "failed"]
            /\ CASE outcome = "open" ->
                      /\ UNCHANGED <<ctx, os, disk>>
                      /\ events' = "NULL"
                 [] outcome = "io_setup" ->
                      \* err_after_open
                      /\ os' = Release(os, "fd")
                      /\ disk' = "unlinked"
                      /\ events' = "NULL"
                      /\ UNCHANGED ctx
                 [] outcome = "calloc" ->
                      \* err_after_io_setup, then err_after_open
                      /\ os' = [os EXCEPT !.fd = "released", !.ctx = "released"]
                      /\ ctx' = "0"
                      /\ disk' = "unlinked"
                      /\ events' = "NULL"
                 [] outcome = "queue_work" ->
                      \* err_after_open: the context and the event array stay
                      /\ os' = [os EXCEPT !.fd = "released", !.ctx = "open"]
                      /\ ctx' = "set"
                      /\ events' = "alloc"
                      /\ disk' = "unlinked"
    /\ UNCHANGED <<hintVars, raftVars, rwf_dsync, closing, close_cb, async,
                   direct, write_queue, poller, over, efd, ring, wr, nsub,
                   pollpc, aborted, cbOrder, closeCbs>>

(* ------------------------------------------------------------------ *)
(* createWorkCb (worker thread)                                        *)
(* ------------------------------------------------------------------ *)

\* The system call createWorkCb makes next, by the position it has reached.
CreateSyscall(phase) ==
    CASE phase = "queued" -> "posix_fallocate"
      [] phase = "fallocated" -> "fsync"
      [] phase = "fsynced" -> "osSyncDir"
      [] phase = "dirsynced" -> "osSetDirectIO"

\* createWorkCb without the fsync of the file.
CreateAfterSkipFsync(phase) ==
    CASE phase = "queued" -> "fsynced"
      [] phase = "fallocated" -> "fsynced"
      [] phase = "fsynced" -> IF direct THEN "dirsynced" ELSE "returned"
      [] phase = "dirsynced" -> "returned"

\* Position after the system call made at `phase` has succeeded.
CreateAfter(phase) ==
    CASE phase = "queued" -> "fallocated"
      [] phase = "fallocated" -> "fsynced"
      [] phase = "fsynced" -> IF direct THEN "dirsynced" ELSE "returned"
      [] phase = "dirsynced" -> "returned"

\* A system call on f->fd acts on the file being created only while that
\* descriptor is open; osSyncDir works on the directory path.
ActsOnFile(call) == call = "osSyncDir" \/ os.fd = "open"

\* One system call of createWorkCb; `ok` is whether it succeeds.
createWorkCb(ok) ==
    /\ Running
    /\ creq.phase \in {"queued", "fallocated", "fsynced", "dirsynced"}
    /\ IF creq.phase = "queued" /\ state # CREATING
       THEN /\ aborted' = "createWorkCb: state == CREATING"
            /\ UNCHANGED creq
       ELSE /\ UNCHANGED aborted
            /\ IF ok
               THEN creq' = [creq EXCEPT
                       !.phase = CreateAfter(creq.phase),
                       !.steps = IF ActsOnFile(CreateSyscall(creq.phase))
                                 THEN Append(@, CreateSyscall(creq.phase))
                                 ELSE @]
               ELSE creq' = [creq EXCEPT !.phase = "returned",
                                         !.status = "ERR"]
    /\ UNCHANGED <<hintVars, raftVars, rwf_dsync, oflags, state, closing,
                   close_cb, fd, ctx, events, n_events, async, direct,
                   write_queue, poller, os, over, disk, efd, ring, wr, nsub,
                   pollpc, cbOrder, closeCbs>>

(* ------------------------------------------------------------------ *)
(* createAfterWorkCb (loop thread)                                     *)
(* ------------------------------------------------------------------ *)

\* createAfterWorkCb without the check of f->closing.
CreateFinalStatusNoCancel(pollStartOk) ==
    IF creq.status = "0" /\ ~pollStartOk THEN "EPOLL" ELSE creq.status

\* req->status as createAfterWorkCb leaves it.
CreateFinalStatus(pollStartOk) ==
    IF closing THEN "ECANCELED"
    ELSE IF creq.status = "0" /\ ~pollStartOk THEN "EPOLL"
    ELSE creq.status

\* createAfterWorkCb setting READY whatever the final status.
CreateFinalStateAlwaysReady(status) == READY

\* f->state as createAfterWorkCb sets it from the final status.
CreateFinalState(status) == IF status = "0" THEN READY ELSE ERRORED

createAfterWorkCb(pollStartOk) ==
    LET status == CreateFinalStatus(pollStartOk)
        pollFailed == ~closing /\ creq.status = "0" /\ ~pollStartOk
        st == CreateFinalState(status)
        pl == IF ~closing /\ creq.status = "0" /\ pollStartOk
              THEN "started" ELSE poller
    IN
    /\ LoopIdle
    /\ creq.phase = "returned"
    /\ state' = st
    /\ creq' = [creq EXCEPT !.phase = "finished", !.status = status,
                            !.cbs = IF creq.cb # "NULL" THEN @ + 1 ELSE @,
                            !.cbStatus = IF creq.cb # "NULL" THEN status ELSE @]
    /\ disk' = IF closing \/ pollFailed THEN "unlinked" ELSE disk
    /\ IF pollFailed
       THEN \* io_destroy(f->ctx); close(f->event_fd); close(f->fd)
            /\ os' = [r \in DOMAIN os |-> "released"]
            /\ over' = over \cup {r \in DOMAIN os : os[r] = "released"}
       ELSE UNCHANGED <<os, over>>
    /\ poller' = maybeClosed(st, closing, write_queue, pl)
    /\ UNCHANGED <<hintVars, raftVars, rwf_dsync, oflags, closing, close_cb,
                   fd, ctx, events, n_events, async, direct, write_queue,
                   efd, ring, wr, nsub, pollpc, aborted, cbOrder, closeCbs>>

(* ------------------------------------------------------------------ *)
(* writeFinish                                                         *)
(* ------------------------------------------------------------------ *)

\* The request record after QUEUE_REMOVE and req->cb(req, status).
writeFinish(req, status) ==
    [req EXCEPT !.phase = "finished", !.status = status, !.cbs = @ + 1,
                !.cbStatus = status, !.cbClosing = closing]

(* ------------------------------------------------------------------ *)
(* uvFileWrite                                                         *)
(* ------------------------------------------------------------------ *)

\* How a call ends: the request was handed to the kernel ("kaio"), to the
\* worker pool ("worker": async off, or io_submit failed with EAGAIN),
\* io_submit failed with another error, or uv_queue_work failed.
WriteOutcomes == {"kaio", "worker", "io_submit", "queue_work"}

\* The assertions at the head of uvFileWrite without the one that keeps
\* writes sequential when n_events is 1.
WritePreconditionNoSequence ==
    /\ ~closing
    /\ state = READY
    /\ fd # "-1"
    /\ os.event_fd # "none"
    /\ ctx # "0"

\* The assertions at the head of uvFileWrite: what a caller must ensure.
WritePrecondition ==
    /\ ~closing
    /\ state = READY
    /\ n_events = 1 => write_queue = <<>>
    /\ fd # "-1"
    /\ os.event_fd # "none"
    /\ ctx # "0"

\* The fallback to the threadpool with the flags of the request kept.
FallbackFlagsKept(fl) == fl

\* The flags of req->iocb once the request falls back to the threadpool.
FallbackFlags(fl) == fl \ {"IOCB_FLAG_RESFD", "RWF_NOWAIT"}

\* The flags uvFileWrite sets before it submits (RWF_HIPRI, which depends
\* on the build and changes no result, is left out).  A build without
\* RWF_NOWAIT requires async to be off and behaves as the model does then.
WriteFlags ==
    (IF rwf_dsync THEN {"RWF_DSYNC"} ELSE {})
        \cup (IF async THEN {"IOCB_FLAG_RESFD", "RWF_NOWAIT"} ELSE {})

\* The request record as uvFileWrite leaves it.  Unless async is off, a
\* request reaches uv_queue_work after io_submit has failed with EAGAIN.
WriteRecord(outcome) ==
    [FreshWrite EXCEPT
        !.phase = CASE outcome = "kaio" -> "kaio"
                    [] outcome = "worker" -> "wqueued"
                    [] OTHER -> "rejected",
        !.flags = IF async /\ outcome \in {"worker", "queue_work"}
                  THEN FallbackFlags(WriteFlags) ELSE WriteFlags,
        !.wouldblock = async /\ outcome \in {"worker", "queue_work"}]

\* uvFileWrite without the QUEUE_REMOVE of its error path.
uvFileWriteNoRemove(outcome) ==
    LET i == nsub + 1 IN
    /\ LoopIdle
    /\ nsub < MaxWrites
    /\ WritePrecondition
    /\ outcome \in {"kaio", "io_submit"} => async
    /\ nsub' = i
    /\ wr' = [wr EXCEPT ![i] = WriteRecord(outcome)]
    /\ write_queue' = Append(write_queue, i)
    /\ UNCHANGED <<hintVars, raftVars, rwf_dsync, oflags, state, closing,
                   close_cb, fd, ctx, events, n_events, async, direct,
                   poller, os, over, disk, efd, ring, creq, pollpc, aborted,
                   cbOrder, closeCbs>>

uvFileWrite(outcome) ==
    LET i == nsub + 1 IN
    /\ LoopIdle
    /\ nsub < MaxWrites
    /\ WritePrecondition
    /\ outcome \in {"kaio", "io_submit"} => async
    /\ nsub' = i
    /\ wr' = [wr EXCEPT ![i] = WriteRecord(outcome)]
    /\ write_queue' =
          IF outcome \in {"kaio", "worker"}
          THEN Append(write_queue, i)
          ELSE \* err: QUEUE_REMOVE(&req->queue); return rv;
               Remove(Append(write_queue, i), i)
    /\ UNCHANGED <<hintVars, raftVars, rwf_dsync, oflags, state, closing,
                   close_cb, fd, ctx, events, n_events, async, direct,
                   poller, os, over, disk, efd, ring, creq, pollpc, aborted,
                   cbOrder, closeCbs>>

(* ------------------------------------------------------------------ *)
(* Kernel: completion of a request submitted with IOCB_FLAG_RESFD      *)
(* ------------------------------------------------------------------ *)

KaioComplete(i, res) ==
    /\ Running
    /\ wr[i].phase = "kaio"
    /\ wr' = [wr EXCEPT ![i].phase = "ring", ![i].res = res]
    /\ ring' = Append(ring, i)
    /\ efd' = efd + 1
    /\ UNCHANGED <<hintVars, raftVars, rwf_dsync, oflags, state, closing,
                   close_cb, fd, ctx, events, n_events, async, direct,
                   write_queue, poller, os, over, disk, creq, nsub, pollpc,
                   aborted, cbOrder, closeCbs>>

(* ------------------------------------------------------------------ *)
(* writeWorkCb (worker thread)                                         *)
(* ------------------------------------------------------------------ *)

\* errno of a failed io_setup or io_submit as uv_translate_sys_error
\* returns it: EAGAIN (no AIO resources left: io_setup(2), io_submit(2)) or
\* another error, which "EIO" stands for as it does for a failed write.
WorkerErrors == {"EAGAIN", "EIO"}

\* io_setup (when n_events > 1) and io_submit.  `outcome` is "submitted",
\* "io_setup" (fails) or "io_submit" (fails), `err` the error of a failure.
\* When uvFileClose has closed f->fd already, io_submit fails with EBADF,
\* or succeeds on whatever file the descriptor number names by then.
writeWorkCbSubmit(i, outcome, err) ==
    /\ Running
    /\ wr[i].phase = "wqueued"
    /\ outcome = "io_setup" => n_events > 1
    /\ outcome = "submitted" => err = "EIO"
    /\ IF state # READY
       THEN /\ aborted' = "writeWorkCb: state == READY"
            /\ UNCHANGED wr
       ELSE /\ UNCHANGED aborted
            /\ wr' = IF outcome = "submitted"
                     THEN [wr EXCEPT ![i].phase = "wrunning"]
                     ELSE [wr EXCEPT ![i].phase = "wreturned",
                                     ![i].res = err,
                                     ![i].status = err,
                                     ![i].wres = err]
    /\ UNCHANGED <<hintVars, raftVars, rwf_dsync, oflags, state, closing,
                   close_cb, fd, ctx, events, n_events, async, direct,
                   write_queue, poller, os, over, disk, efd, ring, creq,
                   nsub, pollpc, cbOrder, closeCbs>>

\* writeWorkCb finishing the request itself, on the worker thread.
writeWorkCbWaitFinishes(i, res) ==
    /\ Running
    /\ wr[i].phase = "wrunning"
    /\ wr' = [wr EXCEPT ![i] = writeFinish([@ EXCEPT !.res = res,
                                                     !.wres = res], res)]
    /\ write_queue' = Remove(write_queue, i)
    /\ cbOrder' = Append(cbOrder, i)
    /\ UNCHANGED <<hintVars, raftVars, rwf_dsync, oflags, state, closing,
                   close_cb, fd, ctx, events, n_events, async, direct,
                   poller, os, over, disk, efd, ring, creq, nsub, pollpc,
                   aborted, closeCbs>>

\* io_getevents returns the event of the blocking write.
writeWorkCbWait(i, res) ==
    /\ Running
    /\ wr[i].phase = "wrunning"
    /\ wr' = [wr EXCEPT ![i].phase = "wreturned", ![i].res = res,
                        ![i].status = res, ![i].wres = res]
    /\ UNCHANGED <<hintVars, raftVars, rwf_dsync, oflags, state, closing,
                   close_cb, fd, ctx, events, n_events, async, direct,
                   write_queue, poller, os, over, disk, efd, ring, creq,
                   nsub, pollpc, aborted, cbOrder, closeCbs>>

(* ------------------------------------------------------------------ *)
(* writeAfterWorkCb (loop thread)                                      *)
(* ------------------------------------------------------------------ *)

\* writeAfterWorkCb without the cancellation mark.
AfterWorkStatusNoCancel(req) == req.status

\* req->status as writeAfterWorkCb passes it to the callback.
AfterWorkStatus(req) == IF closing THEN "ECANCELED" ELSE req.status

writeAfterWorkCb(i) ==
    /\ LoopIdle
    /\ wr[i].phase = "wreturned"
    /\ IF state # READY
       THEN /\ aborted' = "writeAfterWorkCb: state == READY"
            /\ UNCHANGED <<wr, write_queue, cbOrder, poller>>
       ELSE /\ UNCHANGED aborted
            /\ wr' = [wr EXCEPT ![i] = writeFinish(@, AfterWorkStatus(@))]
            /\ write_queue' = Remove(write_queue, i)
            /\ cbOrder' = Append(cbOrder, i)
            /\ poller' = maybeClosed(state, closing, write_queue', poller)
    /\ UNCHANGED <<hintVars, raftVars, rwf_dsync, oflags, state, closing,
                   close_cb, fd, ctx, events, n_events, async, direct, os,
                   over, disk, efd, ring, creq, nsub, pollpc, closeCbs>>

(* ------------------------------------------------------------------ *)
(* writePollCb (loop thread)                                           *)
(* ------------------------------------------------------------------ *)

\* read(f->event_fd): the poller fires when the counter is not zero; the
\* read returns the counter and resets it.  The handler then calls
\* io_getevents(f->ctx, 1, f->n_events, ...), which blocks until the ring
\* holds an event; the kernel keeps completing requests in between.
writePollCbRead ==
    /\ LoopIdle
    /\ poller = "started"
    /\ efd > 0
    /\ IF state # READY
       THEN /\ aborted' = "writePollCb: state == READY"
            /\ UNCHANGED <<efd, pollpc>>
       ELSE /\ UNCHANGED aborted
            /\ efd' = 0
            /\ pollpc' = "getevents"
    /\ UNCHANGED <<hintVars, raftVars, rwf_dsync, oflags, state, closing,
                   close_cb, fd, ctx, events, n_events, async, direct,
                   write_queue, poller, os, over, disk, ring, creq, wr, nsub,
                   cbOrder, closeCbs>>

\* req->status as the loop of writePollCb passes it to the callback, with
\* every result reported as success.
PollStatusAlwaysOk(req) == IF closing THEN "ECANCELED" ELSE "OK"

\* req->status as the loop of writePollCb passes it to the callback of a
\* request it finishes.
PollStatus(req) == IF closing THEN "ECANCELED" ELSE req.res

\* The for loop over the fetched events, from event k of `batch` on.
\* w, q, ord: requests, write queue and callback order so far.  The result
\* also tells whether the loop left the handler by `return`.
RECURSIVE PollLoop(_, _, _, _, _)
PollLoop(batch, k, w, q, ord) ==
    IF k > Len(batch)
    THEN [wr |-> w, queue |-> q, order |-> ord, returned |-> FALSE]
    ELSE LET i == batch[k] IN
         IF closing
         THEN PollLoop(batch, k + 1,
                       [w EXCEPT ![i] = writeFinish(@, PollStatus(@))],
                       Remove(q, i), Append(ord, i))
         ELSE IF w[i].res = "EAGAIN"
         THEN \* uv_queue_work(...); return;  uv_queue_work is given a
              \* work callback and so returns 0 (libuv rejects only a
              \* null one).
              [wr |-> [w EXCEPT ![i].phase = "wqueued",
                                ![i].flags = FallbackFlags(@),
                                ![i].wouldblock = TRUE],
               queue |-> q, order |-> ord, returned |-> TRUE]
         ELSE PollLoop(batch, k + 1,
                       [w EXCEPT ![i] = writeFinish(@, PollStatus(@))],
                       Remove(q, i), Append(ord, i))

\* io_getevents returns the oldest events of the ring, at most n_events.
writePollCbEvents ==
    LET n == Min(n_events, Len(ring))
        batch == SubSeq(ring, 1, n)
        fetched == [i \in WriteIds |->
                      IF i \in Range(batch)
                      THEN [wr[i] EXCEPT !.phase = "fetched"] ELSE wr[i]]
        out == PollLoop(batch, 1, fetched, write_queue, cbOrder)
    IN
    /\ Running
    /\ pollpc = "getevents"
    /\ ring # <<>>
    /\ ring' = SubSeq(ring, n + 1, Len(ring))
    /\ wr' = out.wr
    /\ write_queue' = out.queue
    /\ cbOrder' = out.order
    /\ poller' = IF out.returned THEN poller
                 ELSE maybeClosed(state, closing, out.queue, poller)
    /\ pollpc' = "idle"
    /\ UNCHANGED <<hintVars, raftVars, rwf_dsync, oflags, state, closing,
                   close_cb, fd, ctx, events, n_events, async, direct, os,
                   over, disk, efd, creq, nsub, aborted, closeCbs>>

(* ------------------------------------------------------------------ *)
(* uvFileClose                                                         *)
(* ------------------------------------------------------------------ *)

\* `reused` matters only when f->fd names a descriptor that is closed
\* already: close() then fails with EBADF (assert(rv == 0) aborts) unless
\* the number has been handed out again, and then it closes that one.
uvFileClose(cb, reused) ==
    /\ LoopIdle
    /\ ~closing
    /\ closing' = TRUE
    /\ close_cb' = cb
    /\ IF fd # "-1" /\ os.fd # "open" /\ ~reused
       THEN /\ aborted' = "uvFileClose: rv == 0"
            /\ UNCHANGED <<os, over, poller>>
       ELSE IF state = CLOSED
       THEN /\ aborted' = "maybeClosed: state != CLOSED"
            /\ os' = IF fd # "-1" THEN Release(os, "fd") ELSE os
            /\ over' = IF fd # "-1" /\ os.fd # "open"
                       THEN over \cup {"fd"} ELSE over
            /\ UNCHANGED poller
       ELSE /\ UNCHANGED aborted
            /\ os' = IF fd # "-1" THEN Release(os, "fd") ELSE os
            /\ over' = IF fd # "-1" /\ os.fd # "open"
                       THEN over \cup {"fd"} ELSE over
            /\ poller' = maybeClosed(state, TRUE, write_queue, poller)
    /\ UNCHANGED <<hintVars, raftVars, rwf_dsync, oflags, state, fd, ctx,
                   events, n_events, async, direct, write_queue, disk, efd,
                   ring, creq, wr, nsub, pollpc, cbOrder, closeCbs>>

(* ------------------------------------------------------------------ *)
(* pollCloseCb (loop thread)                                           *)
(* ------------------------------------------------------------------ *)

\* The first assertion of pollCloseCb that fails, or "none".
PollCloseAssert(reused) ==
    IF ~closing THEN "pollCloseCb: f->closing"
    ELSE IF state = CLOSED THEN "pollCloseCb: state != CLOSED"
    ELSE IF write_queue # <<>> THEN "pollCloseCb: QUEUE_IS_EMPTY"
    ELSE IF os.event_fd # "open" /\ ~reused THEN "pollCloseCb: close rv == 0"
    ELSE IF ctx # "0" /\ os.ctx # "open" THEN "pollCloseCb: io_destroy rv == 0"
    ELSE "none"

pollCloseCb(reused) ==
    /\ LoopIdle
    /\ poller = "closing"
    /\ IF PollCloseAssert(reused) # "none"
       THEN /\ aborted' = PollCloseAssert(reused)
            /\ UNCHANGED <<state, os, over, events, closeCbs, poller>>
       ELSE /\ UNCHANGED aborted
            /\ poller' = "closed"
            /\ os' = [os EXCEPT !.event_fd = "released",
                                !.ctx = IF ctx # "0" THEN "released" ELSE @]
            /\ over' = IF os.event_fd # "open"
                       THEN over \cup {"event_fd"} ELSE over
            /\ events' = IF events = "alloc" THEN "freed" ELSE events
            /\ state' = CLOSED
            /\ closeCbs' = IF close_cb # "NULL" THEN closeCbs + 1
                           ELSE closeCbs
    /\ UNCHANGED <<hintVars, raftVars, rwf_dsync, oflags, closing, close_cb,
                   fd, ctx, n_events, async, direct, write_queue, disk, efd,
                   ring, creq, wr, nsub, pollpc, cbOrder>>

(* ------------------------------------------------------------------ *)
(* Specification of the file writer                                    *)
(* ------------------------------------------------------------------ *)

\* No cluster: the membership variables while the file writer runs.
NoCluster ==
    /\ cluster_n = 0
    /\ leader = 0
    /\ log = <<>>
    /\ configuration = <<>>
    /\ commit_index = <<>>
    /\ last_applied = <<>>
    /\ match_index = <<>>
    /\ promotee_id = 0
    /\ round_number = 0
    /\ round_index = 0
    /\ round_ticks = 0
    /\ added = 0
    /\ promoted = 0
    /\ removed = 0

\* No raft instance is looked at: the variables of raft_leader while the
\* file writer or the cluster runs.
NoInstance ==
    /\ r_state = "RAFT_UNAVAILABLE"
    /\ r_id = 0
    /\ r_address = "NULL"
    /\ current_leader = [id |-> 0, address |-> "NULL"]
    /\ hint = [set |-> FALSE, id |-> 0, address |-> "NULL"]

Init == uvFileInit /\ NoCluster /\ NoInstance

Next ==
    \/ \E n \in 1..MaxNWrites, cb \in Callbacks, o \in CreateOutcomes :
          uvFileCreate(n, cb, o)
    \/ \E ok \in BOOLEAN : createWorkCb(ok)
    \/ \E ok \in BOOLEAN : createAfterWorkCb(ok)
    \/ \E o \in WriteOutcomes : uvFileWrite(o)
    \/ \E i \in WriteIds, res \in KaioResults : KaioComplete(i, res)
    \/ \E i \in WriteIds, o \in {"submitted", "io_setup", "io_submit"},
          err \in WorkerErrors : writeWorkCbSubmit(i, o, err)
    \/ \E i \in WriteIds, res \in BlockingResults : writeWorkCbWait(i, res)
    \/ \E i \in WriteIds : writeAfterWorkCb(i)
    \/ writePollCbRead
    \/ writePollCbEvents
    \/ \E cb \in Callbacks, reused \in BOOLEAN : uvFileClose(cb, reused)
    \/ \E reused \in BOOLEAN : pollCloseCb(reused)

Spec == Init /\ [][Next]_vars

(* ------------------------------------------------------------------ *)
(* Membership changes (add-server, promote) in a stable cluster        *)
(* ------------------------------------------------------------------ *)

\* Servers: those of the bootstrapped cluster and the one the test adds.
ServerIds == 1..(MaxClusterN + 1)

\* The configuration the cluster is bootstrapped with: N voters.
BootConfiguration(n) == [k \in 1..n |-> [id |-> k, voting |-> TRUE]]

ConfigIds(c) == {c[k].id : k \in 1..Len(c)}

Voters(c) == {c[k].id : k \in {x \in 1..Len(c) : c[x].voting}}

LastIndex(s) == Len(log[s])

\* The file writer while the cluster runs: an initialised, idle handle.
IdleFile ==
    /\ uvFileInit
    /\ state = NOSTATE
    /\ ~async
    /\ ~direct
    /\ rwf_dsync

\* setup(): cluster of N servers bootstrapped (the configuration is entry 1
\* of every log, committed and applied), started, and stepped until it has
\* a leader.
MembershipInit ==
    /\ IdleFile
    /\ NoInstance
    /\ cluster_n \in MinClusterN..MaxClusterN
    /\ leader \in 1..cluster_n
    /\ log = [s \in ServerIds |->
                IF s <= cluster_n THEN <<BootConfiguration(cluster_n)>>
                ELSE <<>>]
    /\ configuration = [s \in ServerIds |->
                IF s <= cluster_n THEN BootConfiguration(cluster_n)
                ELSE <<>>]
    /\ commit_index = [s \in ServerIds |-> IF s <= cluster_n THEN 1 ELSE 0]
    /\ last_applied = [s \in ServerIds |-> IF s <= cluster_n THEN 1 ELSE 0]
    /\ match_index = [s \in ServerIds |-> IF s <= cluster_n THEN 1 ELSE 0]
    /\ promotee_id = 0
    /\ round_number = 0
    /\ round_index = 0
    /\ round_ticks = 0
    /\ added = 0
    /\ promoted = 0
    /\ removed = 0

\* The configuration with server id added at the end.
AddedAsVoter(c, id) == Append(c, [id |-> id, voting |-> TRUE])

\* The configuration with server id added at the end, as a non-voter.
ConfigurationAdd(c, id) == Append(c, [id |-> id, voting |-> FALSE])

\* The configuration with server id left as it is.
NotPromoted(c, id) == c

\* The configuration with server id made a voter.
ConfigurationPromote(c, id) ==
    [k \in 1..Len(c) |-> IF c[k].id = id THEN [c[k] EXCEPT !.voting = TRUE]
                         ELSE c[k]]

\* No configuration entry of the leader's log is uncommitted.
NoChangeInProgress == commit_index[leader] = LastIndex(leader)

\* CLUSTER_ADD: the fixture grows by one server, whose id is the new number
\* of servers, and submits add-server for it to the leader.  The leader
\* appends the new configuration, which takes effect at once.
RaftAdd(id) ==
    /\ leader # 0
    /\ added = 0
    /\ removed = 0
    /\ id = cluster_n + 1
    /\ id \notin ConfigIds(configuration[leader])
    /\ NoChangeInProgress
    /\ LET c == ConfigurationAdd(configuration[leader], id) IN
       /\ log' = [log EXCEPT ![leader] = Append(@, c)]
       /\ configuration' = [configuration EXCEPT ![leader] = c]
       /\ match_index' = [match_index EXCEPT ![leader] = LastIndex(leader) + 1]
    /\ added' = id
    /\ UNCHANGED <<hintVars, fileVars, cluster_n, leader, commit_index,
                   last_applied, promotee_id, round_number, round_index,
                   round_ticks, promoted, removed>>

\* Commit advancement: the highest index above `cur` stored, by match
\* index m, on a quorum of the voters of configuration c.
QuorumIndex(c, m, cur, last) ==
    LET ok == {n \in (cur + 1)..last :
                 2 * Cardinality({v \in Voters(c) : m[v] >= n})
                     > Cardinality(Voters(c))}
    IN IF ok = {} THEN cur
       ELSE CHOOSE n \in ok : \A k \in ok : k <= n

\* The catch-up round of the promotee ends when its match index reaches
\* the index of the round.
RoundDone(j, m) == j = promotee_id /\ m[j] >= round_index

\* One AppendEntries round trip between the leader and server j (a
\* heartbeat when j has the whole log).  The follower appends the entries it
\* misses (a configuration takes effect when appended), takes the leader's
\* commit index and applies; the leader records the match index, advances
\* its commit index, applies, and checks the catch-up round of a promotee.
AppendEntries(j) ==
    LET jlog == log[leader]
        jcommit == Min(commit_index[leader], Len(jlog))
        m == [match_index EXCEPT ![j] = Len(jlog)]
        lcommit == QuorumIndex(configuration[leader], m,
                               commit_index[leader], LastIndex(leader))
        done == RoundDone(j, m)
        fast == round_ticks < ElectionTimeout
        promote == done /\ fast
        c == ConfigurationPromote(configuration[leader], j)
    IN
    /\ leader # 0
    /\ j # leader
    /\ j \in ConfigIds(configuration[leader])
    /\ match_index' = IF promote
                      THEN [m EXCEPT ![leader] = LastIndex(leader) + 1]
                      ELSE m
    /\ log' = [log EXCEPT ![j] = jlog,
                          ![leader] = IF promote THEN Append(@, c) ELSE @]
    /\ configuration' = [configuration EXCEPT
                            ![j] = jlog[Len(jlog)],
                            ![leader] = IF promote THEN c ELSE @]
    /\ commit_index' = [commit_index EXCEPT ![j] = jcommit,
                                            ![leader] = lcommit]
    /\ last_applied' = [last_applied EXCEPT ![j] = jcommit,
                                            ![leader] = lcommit]
    /\ IF ~done
       THEN UNCHANGED <<promotee_id, round_number, round_index, round_ticks>>
       ELSE IF fast \/ round_number >= MaxRounds
       THEN \* caught up, or the round budget is spent
            /\ promotee_id' = 0
            /\ round_number' = 0
            /\ round_index' = 0
            /\ round_ticks' = 0
       ELSE \* too slow: another round, up to the present end of the log
            /\ promotee_id' = promotee_id
            /\ round_number' = round_number + 1
            /\ round_index' = LastIndex(leader)
            /\ round_ticks' = 0
    /\ UNCHANGED <<hintVars, fileVars, cluster_n, leader, added, promoted,
                   removed>>

\* CLUSTER_PROMOTE: promote the server added last.  A server that has the
\* whole log is promoted at once; otherwise the leader starts catch-up
\* rounds.
RaftPromote(id) ==
    /\ leader # 0
    /\ promoted = 0
    /\ id = added
    /\ id \in ConfigIds(configuration[leader])
    /\ id \notin Voters(configuration[leader])
    /\ NoChangeInProgress
    /\ promotee_id = 0
    /\ promoted' = id
    /\ IF match_index[id] = LastIndex(leader)
       THEN LET c == ConfigurationPromote(configuration[leader], id) IN
            /\ log' = [log EXCEPT ![leader] = Append(@, c)]
            /\ configuration' = [configuration EXCEPT ![leader] = c]
            /\ match_index' = [match_index EXCEPT
                                  ![leader] = LastIndex(leader) + 1]
            /\ UNCHANGED <<promotee_id, round_number, round_index,
                           round_ticks>>
       ELSE /\ promotee_id' = id
            /\ round_number' = 1
            /\ round_index' = LastIndex(leader)
            /\ round_ticks' = 0
            /\ UNCHANGED <<log, configuration, match_index>>
    /\ UNCHANGED <<hintVars, fileVars, cluster_n, leader, commit_index,
                   last_applied, added, removed>>

\* The configuration with server id left in it.
NotRemoved(c, id) == c

\* The configuration without server id.
ConfigurationRemove(c, id) == SelectSeq(c, LAMBDA srv : srv.id # id)

\* TEST_CASE(remove, voting): the test, which has made no other change,
\* submits remove-server to the leader for the voter (leader mod N) + 1.
\* The leader appends the new configuration, which takes effect at once;
\* the removed server is no longer replicated to.
RaftRemove(id) ==
    /\ leader # 0
    /\ removed = 0
    /\ added = 0
    /\ id = (leader % cluster_n) + 1
    /\ id \in Voters(configuration[leader])
    /\ NoChangeInProgress
    /\ promotee_id = 0
    /\ LET c == ConfigurationRemove(configuration[leader], id) IN
       /\ log' = [log EXCEPT ![leader] = Append(@, c)]
       /\ configuration' = [configuration EXCEPT ![leader] = c]
       /\ match_index' = [match_index EXCEPT ![leader] = LastIndex(leader) + 1]
    /\ removed' = id
    /\ UNCHANGED <<hintVars, fileVars, cluster_n, leader, commit_index,
                   last_applied, promotee_id, round_number, round_index,
                   round_ticks, added, promoted>>

\* The leader's clock during a catch-up round.  In a stable cluster a round
\* trip takes less than an election timeout, so time is counted only while
\* the promotee still misses entries of the round.
Tick ==
    /\ promotee_id # 0
    /\ match_index[promotee_id] < round_index
    /\ round_ticks < ElectionTimeout
    /\ round_ticks' = round_ticks + 1
    /\ UNCHANGED <<hintVars, fileVars, cluster_n, leader, log, configuration,
                   commit_index, last_applied, match_index, promotee_id,
                   round_number, round_index, added, promoted, removed>>

MembershipNext ==
    \/ \E id \in ServerIds : RaftAdd(id)
    \/ \E id \in ServerIds : RaftPromote(id)
    \/ \E id \in ServerIds : RaftRemove(id)
    \/ \E j \in ServerIds : AppendEntries(j)
    \/ Tick

\* The leader keeps sending AppendEntries (heartbeats) to every server of
\* its configuration and, the cluster being stable, they arrive.
MembershipSpec ==
    /\ MembershipInit
    /\ [][MembershipNext]_vars
    /\ \A j \in ServerIds : WF_vars(AppendEntries(j))

(* ------------------------------------------------------------------ *)
(* Vocabulary of the properties                                        *)
(* ------------------------------------------------------------------ *)

\* The create request is accepted and its callback has not yet run.
CreateInFlight ==
    creq.phase \in {"queued", "fallocated", "fsynced", "dirsynced", "returned"}

\* uvFileWrite returned 0 for request i.
Accepted(i) == wr[i].phase \notin {"free", "rejected"}

\* Request i is accepted and its callback has not yet run.
WriteInFlight(i) == Accepted(i) /\ wr[i].phase # "finished"

(* ------------------------------------------------------------------ *)
(* C1                                                                  *)
(* ------------------------------------------------------------------ *)

\* In state CLOSED nothing accepted earlier is still waiting for its
\* callback.
C1_ClosedMeansDrained ==
    state = CLOSED =>
        /\ write_queue = <<>>
        /\ ~CreateInFlight
        /\ \A i \in WriteIds : Accepted(i) =>
               wr[i].phase = "finished" /\ wr[i].cbs = 1
        /\ (creq.phase = "finished" /\ creq.cb # "NULL") => creq.cbs = 1

\* A step taken after uvFileClose adds nothing to the write queue, and the
\* step that enters CLOSED starts with an empty write queue and no create
\* request in flight.
C1_Step ==
    /\ closing => Range(write_queue') \subseteq Range(write_queue)
    /\ (state' = CLOSED /\ state # CLOSED) =>
           write_queue = <<>> /\ ~CreateInFlight

\* C1: closing drains.  Once uvFileClose has been called no new write
\* enters the write queue; the state becomes CLOSED only from a state with
\* an empty write queue and no create request in flight; and whenever the
\* state is CLOSED every create and write request accepted earlier has had
\* its callback invoked.
C1_ClosingDrains == []C1_ClosedMeansDrained /\ [][C1_Step]_vars

\* A file closed while a write was in flight: the write was cancelled, the
\* create callback had run, and the close callback has fired.
C1_Witness ==
    /\ state = CLOSED
    /\ closeCbs = 1
    /\ creq.cbs = 1
    /\ \E i \in WriteIds : wr[i].phase = "finished" /\ wr[i].cbClosing

(* ------------------------------------------------------------------ *)
(* C2                                                                  *)
(* ------------------------------------------------------------------ *)

\* C2: every accepted write has its callback invoked exactly once: when
\* writePollCb has returned, no completion event it fetched from the
\* context is left without its request having been finished or handed to
\* the worker pool, and no callback has run twice.
C2_EveryFetchedEventProcessed ==
    /\ \A i \in WriteIds : wr[i].cbs <= 1
    /\ pollpc = "idle" => \A i \in WriteIds : wr[i].phase # "fetched"

(* ------------------------------------------------------------------ *)
(* C3                                                                  *)
(* ------------------------------------------------------------------ *)

\* C3: close terminates.  After uvFileClose, once every worker job and
\* every kernel request has completed and been delivered (no step of the
\* program is left to take), the state is CLOSED and the close callback has
\* been invoked exactly once.
C3_CloseTerminates ==
    (closing /\ ~ENABLED Next) =>
        /\ state = CLOSED
        /\ close_cb # "NULL" => closeCbs = 1
(* ------------------------------------------------------------------ *)
(* C4                                                                  *)
(* ------------------------------------------------------------------ *)

\* Write callbacks have run in the order of submission (requests are
\* numbered in the order of the uvFileWrite calls).
InSubmissionOrder ==
    \A k, l \in 1..Len(cbOrder) : k < l => cbOrder[k] < cbOrder[l]

\* C4 as claimed: for every max_n_writes the callbacks of the writes of
\* one file run in submission order.
C4_SubmissionOrder == InSubmissionOrder

\* C4 as amended: a file created with max_n_writes = 1 has at most one
\* write in flight (uvFileWrite requires an empty queue then), so its write
\* callbacks run in submission order.
C4_SequentialOrder == n_events = 1 => InSubmissionOrder

\* Both writes of a file with max_n_writes = 1 have completed.
C4_Witness == n_events = 1 /\ cbOrder = <<1, 2>>

(* ------------------------------------------------------------------ *)
(* C5                                                                  *)
(* ------------------------------------------------------------------ *)

\* Request i completed, before close, with an error result.
FailedWrite(i) ==
    /\ wr[i].phase = "finished"
    /\ ~wr[i].cbClosing
    /\ wr[i].res \in {"EIO", "EAGAIN"}

\* C5 as claimed: once a write has completed with an error the file is
\* ERRORED (so that uvFileWrite, which requires READY, submits nothing).
C5_WriteErrorMarksErrored ==
    (\E i \in WriteIds : FailedWrite(i)) => state \in {ERRORED, CLOSED}

\* After a failed write the error has been passed to the callback of that
\* request, the state is still READY (CLOSED once a close has completed),
\* and unless close was requested uvFileWrite still accepts requests.
C5_FailedWriteState ==
    \A i \in WriteIds : FailedWrite(i) =>
        /\ wr[i].cbStatus = wr[i].res
        /\ state \in {READY, CLOSED}
        /\ ~closing => WritePreconditionNoSequence

\* The state becomes ERRORED only in createAfterWorkCb.
C5_ErroredStep ==
    (state' = ERRORED /\ state # ERRORED) => creq.phase = "returned"

\* C5 as amended: a write error is reported through the status passed to
\* the callback of that request only; the file stays READY and later
\* uvFileWrite calls are still accepted; the state becomes ERRORED only
\* when a create fails or is cancelled.
C5_WriteErrorReportedOnly == []C5_FailedWriteState /\ [][C5_ErroredStep]_vars

\* A write failed and a later write was accepted and submitted.
C5_Witness ==
    /\ FailedWrite(1)
    /\ wr[1].cbStatus = "EIO"
    /\ wr[2].phase \in {"kaio", "wqueued"}
    /\ state = READY

(* ------------------------------------------------------------------ *)
(* C6                                                                  *)
(* ------------------------------------------------------------------ *)

\* C6: the data file descriptor, the event file descriptor and the AIO
\* context are released only when no write request is in flight.
C6_ReleaseOnlyWhenDrained ==
    \A r \in DOMAIN os :
        os[r] = "released" => \A i \in WriteIds : ~WriteInFlight(i)

(* ------------------------------------------------------------------ *)
(* C7                                                                  *)
(* ------------------------------------------------------------------ *)

Durable ==
    /\ Len(creq.steps) >= 3
    /\ SubSeq(creq.steps, 1, 3) = <<"posix_fallocate", "fsync", "osSyncDir">>

\* Writes are submitted only to a durable preallocated file; a create that
\* finished in READY was durable; a create that finished without being
\* durable left the file ERRORED and passed a non-zero status.
C8_DurableState ==
    /\ nsub > 0 => Durable
    /\ (creq.phase = "finished" /\ state = READY) => Durable
    /\ (creq.phase = "finished" /\ ~Durable) =>
           /\ state \in {ERRORED, CLOSED}
           /\ creq.status # "0"
           /\ creq.cb # "NULL" => creq.cbStatus # "0"

\* The state becomes READY only in createAfterWorkCb, for a durable file.
C8_ReadyStep ==
    (state' = READY /\ state # READY) => creq.phase = "returned" /\ Durable

\* C8: no write is submitted before the preallocation is durable.  The
\* state becomes READY only after posix_fallocate, fsync of the file and
\* fsync of the directory have succeeded in this order; if one of them
\* fails the state becomes ERRORED and the create callback receives a
\* non-zero status.
C8_DurableBeforeReady == []C8_DurableState /\ [][C8_ReadyStep]_vars

\* A write was submitted to a file whose create completed durably.
C8_Witness == state = READY /\ nsub > 0 /\ Durable /\ creq.cbStatus = "0"
(* ------------------------------------------------------------------ *)
(* C9                                                                  *)
(* ------------------------------------------------------------------ *)

\* Servers of the cluster once the test has added one.
Cluster == 1..(cluster_n + 1)

\* Every server has applied entries up to index n.
AppliedOnAll(n) == \A s \in Cluster : last_applied[s] >= n

\* C9: after add-server for a new server was submitted to the leader of a
\* stable cluster of N servers and the applied index has advanced by one
\* (from 1 to 2) on the servers, and until a promotion is requested, the
\* leader's configuration has N + 1 servers, its last server has the
\* requested id, and that server is a non-voter.
C9_AddNonVoter ==
    (added # 0 /\ promoted = 0 /\ AppliedOnAll(2)) =>
        LET c == configuration[leader] IN
        /\ Len(c) = cluster_n + 1
        /\ c[Len(c)].id = added
        /\ added = cluster_n + 1
        /\ ~c[Len(c)].voting
        /\ SubSeq(c, 1, cluster_n) = BootConfiguration(cluster_n)

\* The add-server change is applied on every server, the new one included.
C9_Witness ==
    /\ added # 0
    /\ promoted = 0
    /\ AppliedOnAll(2)
    /\ LastIndex(leader) = 2

(* ------------------------------------------------------------------ *)
(* C10                                                                 *)
(* ------------------------------------------------------------------ *)

\* The leader's configuration shows server id as a voter.
LeaderHasVoter(id) == id \in Voters(configuration[leader])

\* C10: a promote request submitted for the added non-voter eventually
\* advances the applied index by one more (to 3) on the servers, and once
\* it has, the leader's configuration shows that server as a voter from
\* then on.
C10_PromoteNonVoter ==
    /\ (promoted # 0) ~> AppliedOnAll(3)
    /\ [](AppliedOnAll(3) => LeaderHasVoter(promoted))
    /\ [][LeaderHasVoter(promoted) => LeaderHasVoter(promoted)']_vars

\* The promotion is applied on every server and the leader's configuration
\* of N + 1 servers shows the promoted server as a voter.
C10_Witness ==
    /\ promoted # 0
    /\ AppliedOnAll(3)
    /\ LeaderHasVoter(promoted)
    /\ Len(configuration[leader]) = cluster_n + 1

(* ------------------------------------------------------------------ *)
(* C11                                                                 *)
(* ------------------------------------------------------------------ *)

\* The leader has applied the entry that follows the bootstrap one.
LeaderApplied(n) == last_applied[leader] >= n

\* C11: a remove-server request accepted by the leader of a stable cluster
\* of N servers for the voter (leader mod N) + 1 eventually advances the
\* leader's applied index by one (from 1 to 2), and once it has, the
\* leader's configuration has N - 1 servers, none of them the removed one.
C11_RemoveVoter ==
    /\ (removed # 0) ~> LeaderApplied(2)
    /\ []((removed # 0 /\ LeaderApplied(2)) =>
            /\ removed = (leader % cluster_n) + 1
            /\ Len(configuration[leader]) = cluster_n - 1
            /\ removed \notin ConfigIds(configuration[leader]))

\* The removal is applied on the leader, whose configuration has shrunk.
C11_Witness ==
    /\ removed # 0
    /\ LeaderApplied(2)
    /\ LastIndex(leader) = 2
    /\ Len(configuration[leader]) = cluster_n - 1

(* ------------------------------------------------------------------ *)
(* C12                                                                 *)
(* ------------------------------------------------------------------ *)

\* A step of a worker thread: createWorkCb or writeWorkCb moves on.
CreateWorkerStep ==
    /\ creq.phase \in {"queued", "fallocated", "fsynced", "dirsynced"}
    /\ creq' # creq
WriteWorkerStep(i) ==
    /\ wr[i].phase \in {"wqueued", "wrunning"}
    /\ wr'[i] # wr[i]
WorkerStep == CreateWorkerStep \/ \E i \in WriteIds : WriteWorkerStep(i)

\* A step of a handler that runs on the loop thread: an API call or an
\* after-work, poll or close callback.
LoopStep ==
    \/ \E n \in 1..MaxNWrites, cb \in Callbacks, o \in CreateOutcomes :
          uvFileCreate(n, cb, o)
    \/ \E ok \in BOOLEAN : createAfterWorkCb(ok)
    \/ \E o \in WriteOutcomes : uvFileWrite(o)
    \/ \E i \in WriteIds : writeAfterWorkCb(i)
    \/ writePollCbRead
    \/ writePollCbEvents
    \/ \E cb \in Callbacks, reused \in BOOLEAN : uvFileClose(cb, reused)
    \/ \E reused \in BOOLEAN : pollCloseCb(reused)

\* A request callback or the close callback is invoked in this step.
CallbackRuns ==
    \/ creq'.cbs # creq.cbs
    \/ \E i \in WriteIds : wr'[i].cbs # wr[i].cbs
    \/ cbOrder' # cbOrder
    \/ closeCbs' # closeCbs

\* A worker step leaves the file alone, runs no callback and touches no
\* request but its own, of which it leaves the callback record alone.
C12_WorkerFrame ==
    WorkerStep =>
        /\ UNCHANGED <<state, closing, close_cb, write_queue, fd, ctx, events,
                       n_events, poller>>
        /\ ~CallbackRuns
        /\ CreateWorkerStep => wr' = wr
        /\ \A i \in WriteIds : WriteWorkerStep(i) =>
               /\ creq' = creq
               /\ \A j \in WriteIds \ {i} : wr'[j] = wr[j]
               /\ wr'[i].cbStatus = wr[i].cbStatus

\* C12: thread confinement.  createWorkCb and writeWorkCb change only the
\* status of their own request and leave the state, the closing flag, the
\* close callback and the write queue of the file unchanged; every request
\* callback and every change of the state or of the write queue is made by
\* a handler of the loop thread.
C12_ThreadConfinement ==
    /\ [][C12_WorkerFrame]_vars
    /\ [][(CallbackRuns \/ state' # state \/ write_queue' # write_queue)
             => LoopStep /\ ~WorkerStep]_vars

\* A worker has stored the error of its write in the request, which is
\* still queued and whose callback has not run.
C12_Witness ==
    \E i \in WriteIds :
        /\ wr[i].phase = "wreturned"
        /\ wr[i].status = "EIO"
        /\ wr[i].cbs = 0
        /\ i \in Range(write_queue)
        /\ creq.phase = "finished"

(* ------------------------------------------------------------------ *)
(* C13                                                                 *)
(* ------------------------------------------------------------------ *)

\* uvFileCreate or uvFileWrite is called and returns in this step.
CreateCall == creq.phase = "none" /\ creq'.phase # "none"
WriteCall(i) == wr[i].phase = "free" /\ wr'[i].phase # "free"

\* A call runs no callback; a callback runs only for a request accepted by
\* an earlier step; a uvFileWrite call that returns an error leaves the
\* write queue as it found it.
C13_CallStep ==
    /\ (CreateCall \/ \E i \in WriteIds : WriteCall(i)) => ~CallbackRuns
    /\ creq'.cbs # creq.cbs => CreateInFlight
    /\ \A i \in WriteIds :
          /\ wr'[i].cbs # wr[i].cbs => WriteInFlight(i)
          /\ (WriteCall(i) /\ wr'[i].phase = "rejected") =>
                 write_queue' = write_queue

\* The callback of a request whose call returned an error has never run,
\* and a rejected write request is not in the write queue.
C13_RejectedState ==
    /\ creq.phase = "failed" => creq.cbs = 0
    /\ \A i \in WriteIds : wr[i].phase = "rejected" =>
          wr[i].cbs = 0 /\ i \notin Range(write_queue)

\* C13: uvFileCreate and uvFileWrite never invoke the request callback
\* before they return.  When they return 0 the callback runs in a later
\* step of the loop; when they return an error the callback is never
\* invoked and, for uvFileWrite, the request is not in the write queue,
\* which is as it was before the call.
C13_NoCallbackBeforeReturn == []C13_RejectedState /\ [][C13_CallStep]_vars

\* A write was rejected while an earlier one was queued, and the earlier
\* one has since had its callback.
C13_Witness ==
    /\ wr[1].phase = "finished"
    /\ wr[1].cbs = 1
    /\ wr[2].phase = "rejected"
    /\ wr[2].cbs = 0
    /\ creq.cbs = 1

(* ------------------------------------------------------------------ *)
(* C14                                                                 *)
(* ------------------------------------------------------------------ *)

\* The flags of a non-blocking submission.
NonBlockingFlags == {"IOCB_FLAG_RESFD", "RWF_NOWAIT"}

\* The non-blocking attempt of request i would have blocked, and its
\* callback has run before close was requested.
FellBack(i) ==
    /\ wr[i].phase = "finished"
    /\ wr[i].wouldblock
    /\ ~wr[i].cbClosing

\* Request i was re-run by writeWorkCb without the non-blocking flags and
\* its callback received what writeWorkCb stored in req->status.
ReportedFromWorker(i) ==
    /\ wr[i].wres # "none"
    /\ wr[i].flags \cap NonBlockingFlags = {}
    /\ wr[i].cbStatus = wr[i].wres

C15_SyncWrites ==
    \A i \in WriteIds : Accepted(i) =>
        /\ "RWF_DSYNC" \in wr[i].flags \/ "O_DSYNC" \in oflags
        /\ WriteFlags \ wr[i].flags \subseteq NonBlockingFlags
        /\ wr[i].flags \subseteq WriteFlags

\* In a build without RWF_DSYNC a write has completed on a file opened
\* with O_DSYNC.
C15_Witness ==
    \E i \in WriteIds :
        /\ wr[i].phase = "finished"
        /\ wr[i].cbStatus = "OK"
        /\ "RWF_DSYNC" \notin wr[i].flags
        /\ "O_DSYNC" \in oflags

(* ------------------------------------------------------------------ *)
(* C16                                                                 *)
(* ------------------------------------------------------------------ *)

\* C16: after uvFileCreate has returned an error the data file descriptor
\* is closed and f->fd is -1, the AIO context is destroyed and f->ctx is 0,
\* the event array is released, no file is left on disk, the state is not
\* CREATING and the create callback has not been invoked.
C16_FailedCreateLeavesNoTrace ==
    creq.phase = "failed" =>
        /\ fd = "-1"
        /\ os.fd # "open"
        /\ ctx = "0"
        /\ os.ctx # "open"
        /\ events # "alloc"
        /\ disk # "exists"
        /\ state # CREATING
        /\ creq.cbs = 0

(* ------------------------------------------------------------------ *)
(* raft_leader                                                         *)
(* ------------------------------------------------------------------ *)

\* Values of r->state.
RaftStates ==
    {"RAFT_UNAVAILABLE", "RAFT_FOLLOWER", "RAFT_CANDIDATE", "RAFT_LEADER"}

\* Addresses of the servers; "NULL" is the null pointer.
Addresses == {"a1", "a2"}

\* raft_leader reporting the server itself in state follower too.
raft_leaderOwnId(st, id, address, cl) ==
    CASE st \in {"RAFT_UNAVAILABLE", "RAFT_CANDIDATE"} ->
            [id |-> 0, address |-> "NULL"]
      [] OTHER -> [id |-> id, address |-> address]

\* What raft_leader stores in *id and *address, by r->state.
raft_leader(st, id, address, cl) ==
    CASE st \in {"RAFT_UNAVAILABLE", "RAFT_CANDIDATE"} ->
            [id |-> 0, address |-> "NULL"]
      [] st = "RAFT_FOLLOWER" -> [id |-> cl.id, address |-> cl.address]
      [] st = "RAFT_LEADER" -> [id |-> id, address |-> address]

\* A raft instance in any of its states.  A follower knows its leader (id
\* and address of another server) or does not (id 0, null address).
LeaderHintInit ==
    /\ IdleFile
    /\ NoCluster
    /\ r_state \in RaftStates
    /\ r_id \in 1..MaxId
    /\ r_address \in Addresses
    /\ current_leader \in
          {[id |-> 0, address |-> "NULL"]}
              \cup [id : (1..MaxId) \ {r_id}, address : Addresses]
    /\ hint = [set |-> FALSE, id |-> 0, address |-> "NULL"]

\* A call of raft_leader(r, &id, &address).
RaftLeaderCall ==
    LET out == raft_leader(r_state, r_id, r_address, current_leader) IN
    /\ ~hint.set
    /\ hint' = [set |-> TRUE, id |-> out.id, address |-> out.address]
    /\ UNCHANGED <<fileVars, raftVars, r_state, r_id, r_address,
                   current_leader>>

LeaderHintSpec == LeaderHintInit /\ [][RaftLeaderCall]_vars

(* ------------------------------------------------------------------ *)
(* C17                                                                 *)
(* ------------------------------------------------------------------ *)

\* The hint a call has returned is the one of the role.
C17_HintOfRole ==
    hint.set =>
        /\ r_state = "RAFT_LEADER" =>
               hint.id = r_id /\ hint.address = r_address
        /\ r_state = "RAFT_FOLLOWER" =>
               hint.id = current_leader.id
               /\ hint.address = current_leader.address
        /\ r_state \in {"RAFT_CANDIDATE", "RAFT_UNAVAILABLE"} =>
               hint.id = 0 /\ hint.address = "NULL"

\* C17: raft_leader returns the server's own id and address in state
\* leader, the follower's current leader id and address in state
\* follower, and id 0 with a null address in states candidate and
\* unavailable; it changes nothing in the raft instance.
C17_LeaderHint ==
    /\ []C17_HintOfRole
    /\ [][UNCHANGED <<r_state, r_id, r_address, current_leader>>]_vars

\* A follower that knows its leader has reported it.
C17_Witness ==
    /\ hint.set
    /\ r_state = "RAFT_FOLLOWER"
    /\ hint.id = current_leader.id
    /\ hint.id # 0
    /\ hint.id # r_id

(* ------------------------------------------------------------------ *)
(* C18                                                                 *)
(* ------------------------------------------------------------------ *)

\* uvFileClose was called while the create request was in flight and
\* createAfterWorkCb has run since.
CreateCancelled == creq.phase = "finished" /\ creq.status = "ECANCELED"

\* While the create is in flight the close waits; a cancelled create has
\* left the file ERRORED and unlinked, the poller unstarted, and has called
\* the create callback once with UV_ECANCELED.
C18_CancelledState ==
    /\ (closing /\ CreateInFlight) =>
           /\ state = CREATING
           /\ poller = "init"
           /\ closeCbs = 0
    /\ CreateCancelled =>
           /\ closing
           /\ state \in {ERRORED, CLOSED}
           /\ disk = "unlinked"
           /\ poller # "started"
           /\ creq.cbs = IF creq.cb # "NULL" THEN 1 ELSE 0
           /\ creq.cb # "NULL" => creq.cbStatus = "ECANCELED"

\* The create request of a closing file ends cancelled whatever its worker
\* stored, and the close callback fires only after that.
C18_CancelStep ==
    /\ (closing /\ creq.phase = "returned" /\ creq'.phase # "returned") =>
           /\ creq'.status = "ECANCELED"
           /\ state' = ERRORED
           /\ closeCbs' = closeCbs
    /\ (closing /\ (CreateInFlight \/ CreateCancelled)) => state' # READY
    /\ closeCbs' # closeCbs => ~CreateInFlight

\* C18: when uvFileClose is called while a create request is in flight the
\* close waits for the create worker to return; the create callback is
\* then invoked exactly once with UV_ECANCELED whatever the result of the
\* worker, the file is unlinked, the state becomes ERRORED and never READY,
\* the poller is never started, and the close callback fires only after
\* that.
C18_CloseDuringCreate == []C18_CancelledState /\ [][C18_CancelStep]_vars

\* A create was cancelled by a close, its callback received UV_ECANCELED
\* and the close callback has fired.
C18_Witness ==
    /\ CreateCancelled
    /\ creq.cbs = 1
    /\ creq.cbStatus = "ECANCELED"
    /\ state = CLOSED
    /\ closeCbs = 1

(* ------------------------------------------------------------------ *)
(* C19                                                                 *)
(* ------------------------------------------------------------------ *)

\* C19: over the life of a handle each resource it owns (data file
\* descriptor, event file descriptor, AIO context) is released exactly
\* once: none is released again after its release, and none is still open
\* once pollCloseCb has set the state to CLOSED.
C19_ReleasedExactlyOnce ==
    /\ over = {}
    /\ (state = CLOSED /\ poller = "closed") =>
           \A r \in DOMAIN os : os[r] # "open"

(* ------------------------------------------------------------------ *)
(* C20                                                                 *)
(* ------------------------------------------------------------------ *)

\* The assertions on f->state at the head of the four callbacks.
StateAssertions ==
    {"createWorkCb: state == CREATING", "writeWorkCb: state == READY",
     "writeAfterWorkCb: state == READY", "writePollCb: state == READY"}

\* The moves of f->state.  A handle on which uvFileCreate has not been
\* called yet has no state to leave.
C20_StateStep ==
    /\ (state' = READY /\ state # READY) =>
           /\ state = CREATING
           /\ creq.phase = "returned"
           /\ creq.status = "0"
    /\ (state' = CREATING /\ state # CREATING) => creq.phase = "none"
    /\ (state = CREATING /\ creq.phase # "none") =>
           state' \in {CREATING, READY, ERRORED}
    /\ (state = READY /\ creq.phase # "none") => state' \in {READY, CLOSED}
    /\ (state = ERRORED /\ creq.phase # "none") =>
           state' \in {ERRORED, CLOSED}
    /\ (state = CLOSED /\ poller = "closed") => state' = CLOSED

CreateWorkerUsesFd ==
    \/ creq.phase = "fallocated"
    \/ creq.phase \in {"fsynced", "dirsynced"} /\ direct

\* writeWorkCb has request i and has not yet passed its iocb, which names
\* f->fd, to io_submit.
WriteWorkerUsesFd(i) == wr[i].phase = "wqueued"

\* C21: the data file descriptor is never closed on the loop thread while
\* createWorkCb or writeWorkCb is on a worker thread with a system call on
\* that descriptor still to make.
C21_NoDescriptorRace ==
    (closing /\ os.fd = "released") =>
        /\ ~CreateWorkerUsesFd
        /\ \A i \in WriteIds : ~WriteWorkerUsesFd(i)

====
